---------------------------- MODULE Spec2Model ----------------------------
(***************************************************************************)
(* SmartRead (src/app.py): the text-matching core of the Streamlit page.   *)
(*                                                                         *)
(* Text is a sequence of one-character strings.  A word is such a          *)
(* sequence too, so that the vocabulary parser, the normaliser and the     *)
(* lemma sets of the documents all speak about the same values.            *)
(***************************************************************************)
EXTENDS Integers, Sequences, FiniteSets, TLC

VARIABLES
    data,               \* the files under the data folder, in os.walk order
    cached_articles,    \* what st.cache_data keeps of load_articles()
    all_articles,       \* this run's list of Document dicts (load_articles())
    selected_cats,      \* the multiselect's value
    selected_range,     \* the slider's value <<lo, hi>>
    filtered_articles,  \* references (indices into all_articles)
    user_input,         \* tab 1: the text this run searched for
    similarity_scores,  \* tab 1: the cosine vector of the last search
    results,            \* tab 1: references to the ranked Documents
    tab1,               \* tab 1: what the run rendered
    paste_text,         \* tab 2: the text this run parsed
    vocab_list,         \* tab 2: parse_vocabulary_paste(paste_text)
    recommendations,    \* tab 2: the ranked recommendation dicts
    tab2                \* tab 2: what the run rendered

vars == <<data, cached_articles, all_articles, selected_cats, selected_range, filtered_articles,
          user_input, similarity_scores, results, tab1,
          paste_text, vocab_list, recommendations, tab2>>

-----------------------------------------------------------------------------
(* Characters                                                              *)

\* A CJK character is written as its reading between angle brackets.
Lowers == <<"a", "b", "c", "d", "e", "f", "g", "h", "i", "j", "k", "l", "m",
            "n", "o", "p", "q", "r", "s", "t", "u", "v", "w", "x", "y", "z">>
Uppers == <<"A", "B", "C", "D", "E", "F", "G", "H", "I", "J", "K", "L", "M",
            "N", "O", "P", "Q", "R", "S", "T", "U", "V", "W", "X", "Y", "Z">>
DigitChars == <<"0", "1", "2", "3", "4", "5", "6", "7", "8", "9">>
CJK        == {"<ying>", "<yu>", "<yi>", "<er>", "<si>", "<liu>", "<ji>",
               "<qi>", "<ta>"}
Whitespace == {" ", "\n"}

Range(f) == {f[i] : i \in DOMAIN f}

UpperSet  == Range(Uppers)
LetterSet == Range(Lowers) \cup Range(Uppers)
DigitSet  == Range(DigitChars)
ToLower   == [c \in UpperSet |-> Lowers[CHOOSE i \in DOMAIN Uppers : Uppers[i] = c]]
ToDigit   == [c \in DigitSet |-> (CHOOSE i \in DOMAIN DigitChars : DigitChars[i] = c) - 1]

\* [a-zA-Z]
IsLetter(c) == c \in LetterSet

\* \d
IsDigit(c) == c \in DigitSet
DigitVal(c) == ToDigit[c]

\* str.lower() on one character
LowerChar(c) == IF c \in UpperSet THEN ToLower[c] ELSE c

\* str.lower()
lower(s) == [i \in 1..Len(s) |-> LowerChar(s[i])]

\* str.isalpha(): non-empty and alphabetic characters only
isalpha(s) == Len(s) > 0 /\ \A i \in 1..Len(s) : IsLetter(s[i]) \/ s[i] \in CJK

\* sub in s
contains(s, sub) ==
    \E i \in 1..(Len(s) - Len(sub) + 1) : SubSeq(s, i, i + Len(sub) - 1) = sub

\* s.endswith(suffix)
endswith(s, suffix) ==
    Len(s) >= Len(suffix) /\ SubSeq(s, Len(s) - Len(suffix) + 1, Len(s)) = suffix

\* str.strip(): drop leading and trailing whitespace
RECURSIVE lstrip(_)
lstrip(s) ==
    IF s # <<>> /\ Head(s) \in Whitespace THEN lstrip(Tail(s)) ELSE s

RECURSIVE rstrip(_)
rstrip(s) ==
    IF s # <<>> /\ s[Len(s)] \in Whitespace
    THEN rstrip(SubSeq(s, 1, Len(s) - 1)) ELSE s

strip(s) == rstrip(lstrip(s))

\* str.split('\n'): the pieces between newlines, empty pieces kept
RECURSIVE split_lines(_, _)
split_lines(s, cur) ==
    IF s = <<>> THEN <<cur>>
    ELSE IF Head(s) = "\n" THEN <<cur>> \o split_lines(Tail(s), <<>>)
    ELSE split_lines(Tail(s), Append(cur, Head(s)))

-----------------------------------------------------------------------------
(* The words of the model's texts, and the stop words among them (NLTK's  *)
(* English list and the academic supplement).                              *)

w_at        == <<"a", "t">>
w_the       == <<"t", "h", "e">>
w_study     == <<"s", "t", "u", "d", "y">>
w_run       == <<"r", "u", "n">>
w_running   == <<"r", "u", "n", "n", "i", "n", "g">>
w_Run       == <<"R", "u", "n">>
w_growth    == <<"g", "r", "o", "w", "t", "h">>
w_inflation == <<"i", "n", "f", "l", "a", "t", "i", "o", "n">>
w_2024      == <<"2", "0", "2", "4">>

base_stop_words     == {w_at, w_the}
academic_stop_words == {w_study}
final_stop_words    == base_stop_words \cup academic_stop_words

-----------------------------------------------------------------------------
(* parse_vocabulary_paste                                                   *)

\* the character class [a-zA-Z\-\'] of the line pattern
InLeadClass(c) == IsLetter(c) \/ c = "-" \/ c = "'"

\* the greedy run of class characters at the start of the line
RECURSIVE leading_run(_)
leading_run(line) ==
    IF line # <<>> /\ InLeadClass(Head(line))
    THEN <<Head(line)>> \o leading_run(Tail(line))
    ELSE <<>>

\* re.match(r'^[a-zA-Z\-\']{2,}', line): <<m>> for a match m, <<>> for None
at_least_two(run) == IF Len(run) >= 2 THEN <<run>> ELSE <<>>
line_match(line) == at_least_two(leading_run(line))

\* re.sub(r'[^a-zA-Z\-]', '', word).lower()
KeepInWord(c) == IsLetter(c) \/ c = "-"
clean(word) == lower(SelectSeq(word, KeepInWord))

\* vocab_set.add(w), the set kept as the list of its members
set_add(vocab, w) ==
    IF \E i \in 1..Len(vocab) : vocab[i] = w THEN vocab ELSE Append(vocab, w)

\* add_word without the stop-word test
add_word_unfiltered(vocab, clean_word) == set_add(vocab, clean_word)

\* `if clean_word not in base_stop_words: vocab_set.add(clean_word)`
add_word(vocab, clean_word) ==
    IF clean_word \notin base_stop_words THEN set_add(vocab, clean_word) ELSE vocab

\* `if match:` and its body
on_match(vocab, m) ==
    IF m = <<>> THEN vocab ELSE add_word(vocab, clean(m[1]))

\* `if not line: continue`, then the match
on_line(vocab, line) ==
    IF line = <<>> THEN vocab ELSE on_match(vocab, line_match(line))

\* one iteration of the loop over the lines
parse_line(vocab, raw) == on_line(vocab, strip(raw))

RECURSIVE parse_lines(_, _)
parse_lines(lines, vocab) ==
    IF lines = <<>> THEN vocab
    ELSE parse_lines(Tail(lines), parse_line(vocab, Head(lines)))

parse_vocabulary_paste(text) == parse_lines(split_lines(text, <<>>), <<>>)

-----------------------------------------------------------------------------
(* Raw text of documents and queries.  A text is the sequence of its       *)
(* whitespace-separated tokens, each with the number of times it occurs    *)
(* ([w |-> token, n |-> count]); the tokens of the model hold letters and  *)
(* digits only, so punctuation replacement and both tokenisers leave them  *)
(* whole.  The empty sequence is a text of whitespace alone.               *)

\* text.strip() is non-empty
has_text(text) == \E i \in 1..Len(text) : text[i].n > 0

\* WordNetLemmatizer.lemmatize(word, pos) on the words of the model
w_nations == <<"n", "a", "t", "i", "o", "n", "s">>
w_nation  == <<"n", "a", "t", "i", "o", "n">>

lemmatize(word, pos) ==
    CASE pos = "v" /\ word = w_running -> w_run
      [] pos = "n" /\ word = w_nations -> w_nation
      [] OTHER -> word

\* the loop's test on one token
keep_for_display(word) ==
    /\ word \notin base_stop_words
    /\ Len(word) > 1
    /\ isalpha(word)

process_text_for_display(text) ==
    { lemmatize(lemmatize(lower(text[i].w), "v"), "n") :
        i \in { j \in 1..Len(text) : text[j].n > 0 /\ keep_for_display(lower(text[j].w)) } }

-----------------------------------------------------------------------------
(* get_article_category_by_name                                            *)

kw_eng1  == <<"e", "n", "g", "1">>
kw_eng2  == <<"e", "n", "g", "2">>
kw_cet4  == <<"c", "e", "t", "4">>
kw_cet6  == <<"c", "e", "t", "6">>
cat_eng1 == <<"<ying>", "<yu>", "<yi>">>
cat_eng2 == <<"<ying>", "<yu>", "<er>">>
cat_cet4 == <<"<si>", "<ji>">>
cat_cet6 == <<"<liu>", "<ji>">>
cat_other == <<"<qi>", "<ta>">>

category_by_keywords(name_lower) ==
    IF contains(name_lower, kw_eng1) \/ contains(name_lower, cat_eng1)
    THEN cat_eng1
    ELSE IF contains(name_lower, kw_eng2) \/ contains(name_lower, cat_eng2)
    THEN cat_eng2
    ELSE IF contains(name_lower, kw_cet4) \/ contains(name_lower, cat_cet4)
    THEN cat_cet4
    ELSE IF contains(name_lower, kw_cet6) \/ contains(name_lower, cat_cet6)
    THEN cat_cet6
    ELSE cat_other

get_article_category_by_name(filename) == category_by_keywords(lower(filename))

-----------------------------------------------------------------------------
(* list.sort(key = ..., reverse = True): the positions of keys in          *)
(* descending order of key; equal keys keep their order (the sort is       *)
(* stable, also when reversed).                                            *)

\* insert_pos of a sort that puts a key in front of its equals
insert_pos_unstable(keys, acc, key) ==
    Cardinality({ j \in 1..Len(acc) : keys[acc[j]] > key })

\* where key goes among the positions acc already sorted: behind every
\* position whose key is at least as large
insert_pos(keys, acc, key) ==
    Cardinality({ j \in 1..Len(acc) : keys[acc[j]] >= key })

insert_at(acc, p, n) == SubSeq(acc, 1, p) \o <<n>> \o SubSeq(acc, p + 1, Len(acc))

insert_desc(keys, acc, n) == insert_at(acc, insert_pos(keys, acc, keys[n]), n)

RECURSIVE order_desc(_, _)
order_desc(keys, n) ==
    IF n = 0 THEN <<>> ELSE insert_desc(keys, order_desc(keys, n - 1), n)

sort_desc(keys) == order_desc(keys, Len(keys))

permute(seq, order) == [k \in 1..Len(seq) |-> seq[order[k]]]

-----------------------------------------------------------------------------
(* load_articles                                                           *)
(* A file is [root, filename, readable, content]: root is the path of its  *)
(* folder as os.walk reports it, split at the separators.                  *)

data_folder == <<"d", "a", "t", "a">>
ext_txt     == <<".", "t", "x", "t">>
ext_json    == <<".", "j", "s", "o", "n">>

\* re.search(r'20\d{2}', filename): the positions where the pattern matches
year_hits(filename) ==
    { i \in 1..(Len(filename) - 3) :
        /\ filename[i] = "2" /\ filename[i + 1] = "0"
        /\ IsDigit(filename[i + 2]) /\ IsDigit(filename[i + 3]) }

\* int(year_match.group()) for the match at position i
year_at(filename, i) ==
    2000 + 10 * DigitVal(filename[i + 2]) + DigitVal(filename[i + 3])

first_of(hits) == CHOOSE k \in hits : \A m \in hits : k <= m

\* `int(year_match.group()) if year_match else 0`
year_from(filename, hits) ==
    IF hits = {} THEN 0 ELSE year_at(filename, first_of(hits))

year_of(filename) == year_from(filename, year_hits(filename))

\* os.path.basename(root)
basename(root) == root[Len(root)]

\* the category expression of the loop
category_in(folder_name, filename) ==
    IF folder_name = data_folder
    THEN get_article_category_by_name(filename)
    ELSE folder_name

category_of(file) == category_in(basename(file.root), file.filename)

\* one iteration of the loop over the files: the articles it appends
load_one(file) ==
    IF ~(endswith(file.filename, ext_txt) \/ endswith(file.filename, ext_json))
    THEN <<>>
    ELSE IF ~file.readable THEN <<>>            \* open/read raises: pass
    ELSE IF ~has_text(file.content) THEN <<>>
    ELSE << [ title    |-> file.filename,
              year     |-> year_of(file.filename),
              category |-> category_of(file),
              content  |-> file.content,
              lemmas   |-> process_text_for_display(file.content) ] >>

RECURSIVE load_all(_)
load_all(files) ==
    IF files = <<>> THEN <<>> ELSE load_one(Head(files)) \o load_all(Tail(files))

\* articles.sort(key = lambda x: x['year'], reverse = True)
sort_by_year(articles) ==
    permute(articles, sort_desc([i \in 1..Len(articles) |-> articles[i].year]))

\* a missing data folder is created and loads as no file at all
load_articles(files) == sort_by_year(load_all(files))

-----------------------------------------------------------------------------
(* TfidfVectorizer(stop_words = final_stop_words, max_df = 0.6, min_df = 1) *)
(* and cosine_similarity.  Weights are held in fixed point: an idf in      *)
(* hundredths, a normalised weight in units of 1/WeightScale, a cosine in  *)
(* units of 1/(WeightScale * WeightScale).  Fixed point and float64 order  *)
(* a cosine and 0.05 alike unless the cosine is within rounding of 0.05;   *)
(* the texts below keep every cosine away from it.                         *)

WeightScale == 1000

\* 0.05 in the unit of a cosine
Threshold == 50000

\* the analyser: lower-cased tokens of two or more word characters that are
\* not stop words (no lemmatisation)
analyze(text) ==
    { lower(text[i].w) : i \in { j \in 1..Len(text) : text[j].n > 0 /\ Len(text[j].w) >= 2 } }
        \ final_stop_words

\* the number of times term t occurs in the text
RECURSIVE term_count(_, _)
term_count(text, t) ==
    IF text = <<>> THEN 0
    ELSE (IF lower(Head(text).w) = t THEN Head(text).n ELSE 0) + term_count(Tail(text), t)

\* round(100 * (ln((1 + n) / (1 + df)) + 1)), the smoothed idf, at [n][df]
IdfTable ==
    << <<100>>,
       <<141, 100>>,
       <<169, 129, 100>>,
       <<192, 151, 122, 100>>,
       <<210, 169, 141, 118, 100>>,
       <<225, 185, 156, 134, 115, 100>>,
       <<239, 198, 169, 147, 129, 113, 100>>,
       <<250, 210, 181, 159, 141, 125, 112, 100>> >>

RECURSIVE isqrt_between(_, _, _)
isqrt_between(n, lo, hi) ==
    IF hi - lo <= 1 THEN lo
    ELSE LET mid == (lo + hi) \div 2
         IN  IF mid * mid <= n THEN isqrt_between(n, mid, hi)
             ELSE isqrt_between(n, lo, mid)

isqrt(n) == isqrt_between(n, 0, 46341)

RECURSIVE sum_over(_, _)
sum_over(f, S) ==
    IF S = {} THEN 0
    ELSE LET x == CHOOSE y \in S : TRUE IN f[x] + sum_over(f, S \ {x})

\* _count_vocab: the terms of every document
count_vocab(corpus) == [i \in 1..Len(corpus) |-> analyze(corpus[i])]

\* the number of documents each term of the vocabulary occurs in
document_frequency(analyzed) ==
    [t \in UNION Range(analyzed) |->
        Cardinality({ i \in 1..Len(analyzed) : t \in analyzed[i] })]

\* the terms that survive max_df = 0.6 (a proportion of the documents) and
\* min_df = 1
limit_features(df, n_doc) ==
    { t \in DOMAIN df : 10 * df[t] <= 6 * n_doc /\ df[t] >= 1 }

scale_row(row, norm) ==
    [t \in DOMAIN row |-> IF norm = 0 THEN 0 ELSE (row[t] * WeightScale) \div norm]

\* norm = 'l2'
l2_normalize(row) ==
    scale_row(row, isqrt(sum_over([t \in DOMAIN row |-> row[t] * row[t]], DOMAIN row)))

\* tf * idf of one document over the kept terms
tfidf_row(text, df, terms, n_doc) ==
    [t \in terms |-> term_count(text, t) * IdfTable[n_doc][df[t]]]

transform(corpus, df, terms) ==
    IF terms = {} THEN [error |-> TRUE]                 \* no terms remain
    ELSE [ error |-> FALSE,
           terms |-> terms,
           rows  |-> [i \in 1..Len(corpus) |->
                        l2_normalize(tfidf_row(corpus[i], df, terms, Len(corpus)))] ]

fit(corpus, df) ==
    IF DOMAIN df = {} THEN [error |-> TRUE]             \* empty vocabulary
    ELSE IF 6 * Len(corpus) < 10 THEN [error |-> TRUE]  \* max_df < min_df
    ELSE transform(corpus, df, limit_features(df, Len(corpus)))

\* fit_transform(corpus): [error |-> TRUE] when it raises ValueError, else
\* the terms and the l2-normalised tf-idf row of every document
fit_transform(corpus) == fit(corpus, document_frequency(count_vocab(corpus)))

dot(terms, q, d) == sum_over([t \in terms |-> q[t] * d[t]], terms)

\* cosine_similarity(tfidf_matrix[-1], tfidf_matrix[:-1]).flatten()
cosine_similarity(m) ==
    [i \in 1..(Len(m.rows) - 1) |-> dot(m.terms, m.rows[Len(m.rows)], m.rows[i])]

-----------------------------------------------------------------------------
(* Tab 1: the search handler                                               *)

\* above_threshold with the threshold left out
above_threshold_positive(score) == score > 0

\* `if score > 0.05`
above_threshold(score) == score > Threshold

\* with_score that keeps the query's lemmas instead of the overlap
with_score_query(item, score, user_lemmas) ==
    [ score |-> score, matches |-> user_lemmas ] @@ item

\* item['score'] = score; item['matches'] = ...: the dict with the two keys set
with_score(item, score, user_lemmas) ==
    [ score |-> score, matches |-> user_lemmas \cap item.lemmas ] @@ item

\* the loop over enumerate(similarity_scores): the Document list and the
\* results (references) after it
RECURSIVE score_loop(_, _, _, _, _, _)
score_loop(articles, res, filtered, scores, user_lemmas, idx) ==
    IF idx > Len(scores) THEN [articles |-> articles, results |-> res]
    ELSE IF above_threshold(scores[idx])
    THEN score_loop([articles EXCEPT ![filtered[idx]] =
                        with_score(@, scores[idx], user_lemmas)],
                    Append(res, filtered[idx]), filtered, scores, user_lemmas, idx + 1)
    ELSE score_loop(articles, res, filtered, scores, user_lemmas, idx + 1)

\* results.sort(key = lambda x: x['score'], reverse = True)
sort_results(articles, res) ==
    permute(res, sort_desc([k \in 1..Len(res) |-> articles[res[k]].score]))

\* `if results:` ... `else:`; the page shows results[:5], the list is whole
render_results(articles, scores, sorted) ==
    [ articles |-> articles, scores |-> scores, results |-> sorted,
      tab1 |-> IF sorted # <<>> THEN "success_found" ELSE "info_no_match" ]

after_loop(loop, scores) ==
    render_results(loop.articles, scores, sort_results(loop.articles, loop.results))

rank(articles, filtered, scores, user_lemmas) ==
    after_loop(score_loop(articles, <<>>, filtered, scores, user_lemmas, 1), scores)

\* the try block: `except ValueError` renders the warning
try_search(articles, filtered, input, m) ==
    IF m.error
    THEN [ articles |-> articles, scores |-> <<>>, results |-> <<>>,
           tab1 |-> "warning_no_signal" ]
    ELSE rank(articles, filtered, cosine_similarity(m), process_text_for_display(input))

\* corpus = [item['content'] for item in filtered_articles] + [user_input]
search_corpus(articles, filtered, input) ==
    [i \in 1..(Len(filtered) + 1) |->
        IF i <= Len(filtered) THEN articles[filtered[i]].content ELSE input]

\* the body of `if search_btn and user_input.strip() and filtered_articles`
run_search(articles, filtered, input) ==
    try_search(articles, filtered, input,
               fit_transform(search_corpus(articles, filtered, input)))

\* tab 1 of one run
tab1_handler(articles, filtered, search_btn, input) ==
    IF search_btn /\ has_text(input) /\ filtered # <<>>
    THEN run_search(articles, filtered, input)
    ELSE [ articles |-> articles, scores |-> <<>>, results |-> <<>>, tab1 |-> "idle" ]

-----------------------------------------------------------------------------
(* Tab 2: the SmartBridge handler                                          *)

\* the dict appended for a document whose lemma set meets the vocabulary;
\* coverage is the fraction num / den
recommendation(ref, intersection, user_vocab_set) ==
    [ article   |-> ref,
      hits      |-> Cardinality(intersection),
      hit_words |-> intersection,
      coverage  |-> [ num |-> Cardinality(intersection),
                      den |-> Cardinality(user_vocab_set) ] ]

\* recommend_one without the test on the intersection
recommend_one_always(ref, intersection, user_vocab_set) ==
    <<recommendation(ref, intersection, user_vocab_set)>>

\* `if intersection:` and its body
recommend_one(ref, intersection, user_vocab_set) ==
    IF intersection # {} THEN <<recommendation(ref, intersection, user_vocab_set)>>
    ELSE <<>>

\* the loop over filtered_articles
RECURSIVE recommend_loop(_, _, _)
recommend_loop(articles, filtered, user_vocab_set) ==
    IF filtered = <<>> THEN <<>>
    ELSE recommend_one(Head(filtered),
                       user_vocab_set \cap articles[Head(filtered)].lemmas,
                       user_vocab_set)
             \o recommend_loop(articles, Tail(filtered), user_vocab_set)

\* recommendations.sort(key = lambda x: x['hits'], reverse = True)
sort_recommendations(recs) ==
    permute(recs, sort_desc([k \in 1..Len(recs) |-> recs[k].hits]))

\* `if not recommendations:` ... `else:`
render_recommendations(vocab, sorted) ==
    [ vocab |-> vocab, recs |-> sorted,
      tab2 |-> IF sorted = <<>> THEN "warning_no_hits" ELSE "recommended" ]

\* `if not vocab_list:` ... `else:`
recommend_for(articles, filtered, vocab) ==
    IF vocab = <<>>
    THEN [ vocab |-> vocab, recs |-> <<>>, tab2 |-> "error_no_words" ]
    ELSE render_recommendations(
             vocab, sort_recommendations(recommend_loop(articles, filtered, Range(vocab))))

\* the body of `if st.button(...)`
run_recommend(articles, filtered, text) ==
    IF strip(text) = <<>>
    THEN [ vocab |-> <<>>, recs |-> <<>>, tab2 |-> "warning_paste_first" ]
    ELSE IF filtered = <<>>
    THEN [ vocab |-> <<>>, recs |-> <<>>, tab2 |-> "error_library_empty" ]
    ELSE recommend_for(articles, filtered, parse_vocabulary_paste(text))

\* tab 2 of one run
tab2_handler(articles, filtered, bridge_btn, text) ==
    IF bridge_btn THEN run_recommend(articles, filtered, text)
    ELSE [ vocab |-> <<>>, recs |-> <<>>, tab2 |-> "idle" ]

-----------------------------------------------------------------------------
(* The filter expander                                                     *)

\* known_years that takes the unknown year 0 for a year
known_years_any(articles) == { articles[i].year : i \in 1..Len(articles) }

known_years(articles) ==
    { articles[i].year : i \in { j \in 1..Len(articles) : articles[j].year > 0 } }

Max(S) == CHOOSE x \in S : \A y \in S : y <= x
Min(S) == CHOOSE x \in S : \A y \in S : x <= y

\* (min_y, max_y)
bounds_of(years) ==
    IF years # {} THEN <<Min(years), Max(years)>> ELSE <<2010, 2025>>

slider_bounds(articles) == bounds_of(known_years(articles))

available_categories(articles) == { articles[i].category : i \in 1..Len(articles) }

\* the values the slider can return
range_pairs(min_y, max_y) ==
    { <<lo, hi>> \in (min_y..max_y) \X (min_y..max_y) : lo <= hi }

slider_values(bounds) == range_pairs(bounds[1], bounds[2])

RECURSIVE select_refs(_, _, _, _)
select_refs(articles, i, cats, range) ==
    IF i > Len(articles) THEN <<>>
    ELSE (IF /\ range[1] <= articles[i].year /\ articles[i].year <= range[2]
             /\ articles[i].category \in cats
          THEN <<i>> ELSE <<>>) \o select_refs(articles, i + 1, cats, range)

\* filtered_articles, as references into all_articles
filter_articles(articles, cats, range) ==
    IF Len(articles) > 0 THEN select_refs(articles, 1, cats, range) ELSE <<>>

-----------------------------------------------------------------------------
(* The data folders, queries and pastes the model draws from               *)

MaxFiles == 4
MaxLen   == 5

tok(word, count) == [w |-> word, n |-> count]

dir_root == <<data_folder>>
dir_cet6 == <<data_folder, cat_cet6>>
dir_data == <<data_folder, data_folder>>

\* data/2021_CET6.txt
f_root_cet6 ==
    [ root |-> dir_root, readable |-> TRUE,
      filename |-> <<"2", "0", "2", "1", "_", "C", "E", "T", "6">> \o ext_txt,
      content  |-> <<tok(w_inflation, 1), tok(w_growth, 1)>> ]
\* data/eng2_eng1.txt
f_root_eng ==
    [ root |-> dir_root, readable |-> TRUE,
      filename |-> kw_eng2 \o <<"_">> \o kw_eng1 \o ext_txt,
      content  |-> <<tok(w_running, 1), tok(w_nations, 2)>> ]
\* data/notes.md
f_root_md ==
    [ root |-> dir_root, readable |-> TRUE,
      filename |-> <<"n", "o", "t", "e", "s", ".", "m", "d">>,
      content  |-> <<tok(w_growth, 1)>> ]
\* data/2020_x.json, which cannot be decoded
f_root_bad ==
    [ root |-> dir_root, readable |-> FALSE,
      filename |-> <<"2", "0", "2", "0", "_", "x">> \o ext_json,
      content  |-> <<tok(w_growth, 1)>> ]
\* data/<liu><ji>/2020_a.txt
f_cet6_a ==
    [ root |-> dir_cet6, readable |-> TRUE,
      filename |-> <<"2", "0", "2", "0", "_", "a">> \o ext_txt,
      content  |-> <<tok(w_2024, 1), tok(w_the, 1), tok(w_study, 2)>> ]
\* data/<liu><ji>/2021_c.txt
f_cet6_c ==
    [ root |-> dir_cet6, readable |-> TRUE,
      filename |-> <<"2", "0", "2", "1", "_", "c">> \o ext_txt,
      content  |-> <<tok(w_run, 1), tok(w_growth, 40)>> ]
\* data/<liu><ji>/2021_y.txt, of whitespace alone
f_cet6_blank ==
    [ root |-> dir_cet6, readable |-> TRUE,
      filename |-> <<"2", "0", "2", "1", "_", "y">> \o ext_txt,
      content  |-> <<>> ]
\* data/data/2021_cet4.txt
f_data_cet4 ==
    [ root |-> dir_data, readable |-> TRUE,
      filename |-> <<"2", "0", "2", "1", "_">> \o kw_cet4 \o ext_txt,
      content  |-> <<tok(w_inflation, 1), tok(w_growth, 1)>> ]

\* in the order of a top-down walk: the root's files, then each subfolder's
Pool == << f_root_cet6, f_root_eng, f_root_md, f_root_bad,
           f_cet6_a, f_cet6_c, f_cet6_blank, f_data_cet4 >>

\* the files load_articles skips, and the files it loads
Skipped   == { i \in 1..Len(Pool) : load_one(Pool[i]) = <<>> }
Documents == { i \in 1..Len(Pool) : load_one(Pool[i]) # <<>> }

RECURSIVE pick(_, _)
pick(S, i) ==
    IF i > Len(Pool) THEN <<>>
    ELSE (IF i \in S THEN <<Pool[i]>> ELSE <<>>) \o pick(S, i + 1)

\* a data folder holds the skipped files and at most MaxFiles documents
DataFolders ==
    { pick(Skipped \cup S, 1) :
        S \in { T \in SUBSET Documents : Cardinality(T) <= MaxFiles } }

Queries ==
    { <<>>,                                         \* whitespace alone
      <<tok(w_inflation, 1)>>,
      <<tok(w_the, 1)>>,
      <<tok(w_2024, 1)>>,
      <<tok(w_Run, 1), tok(w_inflation, 1)>>,
      <<tok(w_inflation, 1), tok(w_2024, 1), tok(w_running, 1)>> }

nl == <<"\n">>

Pastes ==
    { <<" ">> \o nl,
      w_the,
      <<"'", "'">>,
      w_Run \o <<" ", "v", ".">> \o nl \o w_growth \o nl \o w_run,
      w_growth \o <<" ", "#">>,
      w_study \o nl \o w_inflation \o nl \o w_growth }

-----------------------------------------------------------------------------
(* The page.  One action is one run of the script: load_articles() hands   *)
(* out a fresh copy of the cached list (st.cache_data), the filter is      *)
(* evaluated, then tab 1 and tab 2 run with the button that was pressed.   *)

Rendered(cats, range, filtered, searched, bridged, input, text) ==
    /\ UNCHANGED <<data, cached_articles>>
    /\ all_articles' = searched.articles
    /\ selected_cats' = cats
    /\ selected_range' = range
    /\ filtered_articles' = filtered
    /\ user_input' = input
    /\ similarity_scores' = searched.scores
    /\ results' = searched.results
    /\ tab1' = searched.tab1
    /\ paste_text' = text
    /\ vocab_list' = bridged.vocab
    /\ recommendations' = bridged.recs
    /\ tab2' = bridged.tab2

Tabs(cats, range, filtered, searched, bridge_btn, input, text) ==
    Rendered(cats, range, filtered, searched,
             tab2_handler(searched.articles, filtered, bridge_btn, text), input, text)

Filtered(cats, range, filtered, search_btn, input, bridge_btn, text) ==
    Tabs(cats, range, filtered,
         tab1_handler(cached_articles, filtered, search_btn, input),
         bridge_btn, input, text)

Script(cats, range, search_btn, input, bridge_btn, text) ==
    Filtered(cats, range, filter_articles(cached_articles, cats, range),
             search_btn, input, bridge_btn, text)

Init ==
    /\ data \in DataFolders
    /\ cached_articles = load_articles(data)
    /\ all_articles = cached_articles
    /\ selected_cats = available_categories(all_articles)
    /\ selected_range = slider_bounds(all_articles)
    /\ filtered_articles = filter_articles(all_articles, selected_cats, selected_range)
    /\ user_input = <<>>
    /\ similarity_scores = <<>>
    /\ results = <<>>
    /\ tab1 = "idle"
    /\ paste_text = <<>>
    /\ vocab_list = <<>>
    /\ recommendations = <<>>
    /\ tab2 = "idle"

\* the multiselect changes
SelectCategories ==
    /\ Len(all_articles) > 0
    /\ \E cats \in SUBSET available_categories(cached_articles) :
          /\ cats # selected_cats
          /\ Script(cats, selected_range, FALSE, <<>>, FALSE, <<>>)

\* the slider moves
MoveSlider ==
    /\ Len(all_articles) > 0
    /\ \E range \in slider_values(slider_bounds(cached_articles)) :
          /\ range # selected_range
          /\ Script(selected_cats, range, FALSE, <<>>, FALSE, <<>>)

\* the search button is pressed with some text in the text area
ClickSearch ==
    /\ \E input \in Queries :
          Script(selected_cats, selected_range, TRUE, input, FALSE, <<>>)

\* the recommendation button is pressed with some text pasted
ClickRecommend ==
    /\ \E text \in Pastes :
          Script(selected_cats, selected_range, FALSE, <<>>, TRUE, text)

Next == SelectCategories \/ MoveSlider \/ ClickSearch \/ ClickRecommend

Spec == Init /\ [][Next]_vars

-----------------------------------------------------------------------------
(* parse_vocabulary_paste alone, on every text of at most MaxLen           *)
(* characters over an alphabet with one character of each kind             *)

ParseAlphabet == {"a", "T", "-", "'", " ", "\n", "#"}

Texts == UNION { [1..n -> ParseAlphabet] : n \in 0..MaxLen }

InitParse ==
    /\ paste_text \in Texts
    /\ vocab_list = <<>>
    /\ tab2 = "idle"
    /\ data = <<>>
    /\ cached_articles = <<>>
    /\ all_articles = <<>>
    /\ selected_cats = {}
    /\ selected_range = slider_bounds(<<>>)
    /\ filtered_articles = <<>>
    /\ user_input = <<>>
    /\ similarity_scores = <<>>
    /\ results = <<>>
    /\ tab1 = "idle"
    /\ recommendations = <<>>

Parse ==
    /\ tab2 = "idle"
    /\ vocab_list' = parse_vocabulary_paste(paste_text)
    /\ tab2' = "parsed"
    /\ UNCHANGED <<data, cached_articles, all_articles, selected_cats, selected_range,
                   filtered_articles, user_input, similarity_scores, results,
                   tab1, paste_text, recommendations>>

NextParse == Parse

SpecParse == InitParse /\ [][NextParse]_vars

-----------------------------------------------------------------------------
(* Properties                                                              *)

LoadedFields == {"title", "year", "category", "content", "lemmas"}

PosIn(seq, x) == CHOOSE i \in 1..Len(seq) : seq[i] = x

NoDuplicates(seq) == \A i, j \in 1..Len(seq) : i # j => seq[i] # seq[j]

\* the search of this run built the vector space and went through the scores
Scored == tab1 \in {"success_found", "info_no_match"}

\* the coverage ranking of this run went through the candidates
Ranked == tab2 \in {"recommended", "warning_no_hits"}

\* C1: the loaded corpus is read-only: no ranking pass adds or changes a
\* field of a Document, so every Document of the run still is what
\* load_articles made it, without a score or matched terms on it.
C1_CorpusReadOnly ==
    /\ Len(all_articles) = Len(cached_articles)
    /\ \A i \in 1..Len(all_articles) :
          /\ DOMAIN all_articles[i] = LoadedFields
          /\ all_articles[i] = cached_articles[i]

\* C2: the text-search result holds exactly the candidates whose similarity
\* is strictly above 0.05, each once.
C2_ExactlyAboveThreshold ==
    Scored =>
        /\ Len(similarity_scores) = Len(filtered_articles)
        /\ NoDuplicates(results)
        /\ Range(results) =
              { filtered_articles[i] :
                  i \in { j \in 1..Len(similarity_scores) :
                            similarity_scores[j] > Threshold } }
        /\ \A i \in 1..Len(similarity_scores) :
              similarity_scores[i] <= Threshold =>
                  filtered_articles[i] \notin Range(results)

\* a search that kept one candidate, dropped one with a positive similarity
\* of at most 0.05 and dropped one with similarity 0
C2_Witness ==
    /\ Scored
    /\ results # <<>>
    /\ \E i \in 1..Len(similarity_scores) :
          similarity_scores[i] > 0 /\ similarity_scores[i] <= Threshold
    /\ \E i \in 1..Len(similarity_scores) : similarity_scores[i] = 0

\* C3: for a non-empty vocabulary V the coverage ranking holds exactly the
\* candidates whose lemma set meets set(V), each once, with hits the size
\* of the intersection and coverage hits / |set(V)|: 1 <= hits <= |set(V)|,
\* the denominator is never 0 and coverage lies in (0, 1].
C3_CoverageRanking ==
    Ranked =>
        LET V == Range(vocab_list)
        IN  /\ vocab_list # <<>>
            /\ NoDuplicates([k \in 1..Len(recommendations) |-> recommendations[k].article])
            /\ { recommendations[k].article : k \in 1..Len(recommendations) } =
                  { r \in Range(filtered_articles) : V \cap cached_articles[r].lemmas # {} }
            /\ \A k \in 1..Len(recommendations) :
                  LET rec == recommendations[k]
                  IN  /\ rec.hit_words = V \cap cached_articles[rec.article].lemmas
                      /\ rec.hits = Cardinality(rec.hit_words)
                      /\ rec.coverage.num = rec.hits
                      /\ rec.coverage.den = Cardinality(V)
                      /\ rec.coverage.den > 0
                      /\ 1 <= rec.hits
                      /\ rec.hits <= Cardinality(V)

\* a ranking that left a candidate out and gave another a coverage below 1
C3_Witness ==
    /\ tab2 = "recommended"
    /\ Len(recommendations) < Len(filtered_articles)
    /\ \E k \in 1..Len(recommendations) :
          recommendations[k].hits < recommendations[k].coverage.den

\* C4: the words parse_vocabulary_paste returns, stated from the text: a
\* line is a maximal stretch without a newline; its word is the longest
\* leading run of letters, hyphens and apostrophes of the stripped line when
\* that run has two characters or more, with the apostrophes removed and the
\* rest lower-cased; stop words are discarded.
C4_LineSpans(text) ==
    { sp \in (1..(Len(text) + 1)) \X (0..Len(text)) :
        /\ sp[1] <= sp[2] + 1
        /\ (sp[1] = 1 \/ text[sp[1] - 1] = "\n")
        /\ (sp[2] = Len(text) \/ text[sp[2] + 1] = "\n")
        /\ \A k \in sp[1]..sp[2] : text[k] # "\n" }

C4_Inked(text, sp) == { k \in sp[1]..sp[2] : text[k] \notin Whitespace }

C4_RunLength(text, sp) ==
    IF C4_Inked(text, sp) = {} THEN 0
    ELSE LET a == Min(C4_Inked(text, sp))
             b == Max(C4_Inked(text, sp))
         IN  Cardinality({ k \in a..b :
                 \A m \in a..k : IsLetter(text[m]) \/ text[m] \in {"-", "'"} })

C4_NotApostrophe(c) == c # "'"

C4_Word(text, sp) ==
    LET a == Min(C4_Inked(text, sp))
    IN  lower(SelectSeq(SubSeq(text, a, a + C4_RunLength(text, sp) - 1),
                        C4_NotApostrophe))

C4_Expected(text) ==
    { C4_Word(text, sp) : sp \in { x \in C4_LineSpans(text) : C4_RunLength(text, x) >= 2 } }
        \ base_stop_words

\* C4: parse_vocabulary_paste returns exactly those words, without
\* duplicates, and returns a (possibly empty) list for every text.
C4_ParsesLeadingWords ==
    tab2 = "parsed" =>
        /\ vocab_list \in Seq(Range(vocab_list))
        /\ NoDuplicates(vocab_list)
        /\ Range(vocab_list) = C4_Expected(paste_text)

\* "aT\naa": a stop word after lower-casing on one line, a word on the other
C4_Witness ==
    /\ tab2 = "parsed"
    /\ paste_text = <<"a", "T", "\n", "a", "a">>
    /\ vocab_list = << <<"a", "a">> >>

\* C5: a file directly under the source root is classified by the filename
\* keyword rules, a file under any subdirectory gets that subdirectory's
\* name, whatever the subdirectory is called.
C5_File(title) == data[CHOOSE i \in 1..Len(data) : data[i].filename = title]

C5_CategoryByLocation ==
    \A i \in 1..Len(cached_articles) :
        LET file == C5_File(cached_articles[i].title)
        IN  cached_articles[i].category =
               IF Len(file.root) = 1
               THEN get_article_category_by_name(file.filename)
               ELSE file.root[Len(file.root)]

\* C6: a search whose query contributes no surviving vocabulary ends in the
\* "no signal" outcome, with no results, never in "no matches found".
C6_NoSignal ==
    (tab1 # "idle" /\ analyze(user_input) = {}) =>
        (tab1 = "warning_no_signal" /\ results = <<>>)

\* C7 as claimed: every returned document's matched-terms set is non-empty.
C7_MatchesNonEmpty ==
    \A k \in 1..Len(results) : all_articles[results[k]].matches # {}

\* C7 as amended: every returned document scores above 0.05 and carries as
\* matched terms the overlap of the query's lemmas with its own lemma set,
\* which may be empty.
C7_MatchesAreLemmaOverlap ==
    \A k \in 1..Len(results) :
        LET item == all_articles[results[k]]
        IN  /\ item.score > Threshold
            /\ item.matches =
                  process_text_for_display(user_input) \cap cached_articles[results[k]].lemmas

\* a search that returned one document with matched terms and one without
C7_Witness ==
    /\ \E k \in 1..Len(results) : all_articles[results[k]].matches = {}
    /\ \E k \in 1..Len(results) : all_articles[results[k]].matches # {}

\* C8: both ranked lists are in non-increasing score order, and results of
\* equal score keep the order they had in the candidate list.
C8_SortedStable ==
    /\ \A j, k \in 1..Len(results) :
          j < k =>
              LET sj == all_articles[results[j]].score
                  sk == all_articles[results[k]].score
              IN  /\ sj >= sk
                  /\ sj = sk => PosIn(filtered_articles, results[j])
                                    < PosIn(filtered_articles, results[k])
    /\ \A j, k \in 1..Len(recommendations) :
          j < k =>
              LET rj == recommendations[j]
                  rk == recommendations[k]
              IN  /\ rj.hits >= rk.hits
                  /\ rj.hits = rk.hits => PosIn(filtered_articles, rj.article)
                                              < PosIn(filtered_articles, rk.article)

\* a search whose sort moved a later candidate to the front and kept two
\* candidates of equal score in order
C8_WitnessSearch ==
    /\ Len(results) >= 3
    /\ results[1] > results[2]
    /\ all_articles[results[2]].score = all_articles[results[3]].score

\* a coverage ranking whose sort did the same
C8_WitnessCoverage ==
    /\ Len(recommendations) >= 3
    /\ recommendations[1].article > recommendations[2].article
    /\ recommendations[2].hits = recommendations[3].hits

C8_Witness == C8_WitnessSearch \/ C8_WitnessCoverage

\* C9: a Document of unknown year is never a candidate, hence in no result:
\* the slider's lower bound is the smallest known year, or 2010, and the
\* selected range starts no lower.
C9_UnknownYearNeverCandidate ==
    /\ slider_bounds(cached_articles)[1] > 0
    /\ selected_range[1] >= slider_bounds(cached_articles)[1]
    /\ \A i \in 1..Len(filtered_articles) : all_articles[filtered_articles[i]].year # 0
    /\ \A k \in 1..Len(results) : all_articles[results[k]].year # 0
    /\ \A k \in 1..Len(recommendations) :
          all_articles[recommendations[k].article].year # 0

\* a ranking over a corpus that holds a Document of unknown year whose
\* category is selected and whose lemmas meet the vocabulary
C9_Witness ==
    /\ tab2 = "recommended"
    /\ \E i \in 1..Len(all_articles) :
          /\ all_articles[i].year = 0
          /\ all_articles[i].category \in selected_cats
          /\ all_articles[i].lemmas \cap Range(vocab_list) # {}

\* C10: every word parse_vocabulary_paste returns has two characters or
\* more and holds a Latin letter.
C10_UsableHeadwords ==
    tab2 = "parsed" =>
        \A i \in 1..Len(vocab_list) :
            /\ Len(vocab_list[i]) >= 2
            /\ \E k \in 1..Len(vocab_list[i]) : IsLetter(vocab_list[i][k])

=============================================================================
